---- MODULE Spec2Model ----
(***************************************************************************)
(* Model of hotstuff/network/src/receiver.rs: the Receiver's accept loop   *)
(* (Receiver::spawn / Receiver::run), the per-connection runner task       *)
(* (Receiver::spawn_runner) and the shared handler_map                     *)
(* (Arc<RwLock<HashMap<u64, Handler>>>, a tokio RwLock: FIFO-fair,         *)
(* write-preferring).                                                      *)
(***************************************************************************)
EXTENDS Integers, Sequences, FiniteSets, TLC

(* ----------------------------- bounds --------------------------------- *)
\* connections the listener accepts in a run
MaxConns == 2
\* frames a peer sends on one connection
MaxFrames == 2
\* accept failures in a run
MaxAcceptErrs == 1
\* routing table mutations each external task requests in a run
MaxMuts == 1

Conns == 1..MaxConns
\* external tasks that mutate handler_map (negative, so that lock waiters of
\* both kinds are integers)
Mutators == {-1, -2}
\* validator ids that appear in frames and in the table
Tenants == {1, 2}
Handlers == {"h1", "h2"}
None == "none"

\* width of the validator id prefix of an envelope, in bytes of the model
IdWidth == 1

\* the frames a peer may send: an undecodable one (shorter than the id
\* prefix), one for validator 1 with payload <<7>>, one for validator 2
\* with an empty payload
PeerFrames == { <<>>, <<1, 7>>, <<2>> }

\* a mutation of handler_map: insert(t, h), or remove(t) when h = None
Insert(t, h) == [t |-> t, h |-> h]
Remove(t) == [t |-> t, h |-> None]
\* what each external task does to the table: one registers validator 2
\* with handler h2, the other removes validator 1
MutOp(m) == IF m = -1 THEN Insert(2, "h2") ELSE Remove(1)

NoHandlerFound == "No handler found"
Ack == "Ack"

VARIABLES
    process,     \* "running" | "exited": the OS process
    listener,    \* "binding" | "accepting" | "panicked": the task of Receiver::run
    acceptErrs,  \* number of FailedToListen warnings logged
    accepted,    \* number of sockets listener.accept() returned
    acceptBusy,  \* history: a runner was inside a lookup, dispatch or reply at the last accept
    st,          \* per connection: "none" | "open" | "lookup" | "dispatching" | "replying" | "closed"
    why,         \* per connection: why the runner ended
    inbox,       \* per connection: frames sent by the peer, not yet read
    rcvd,        \* per connection: frames reader.next() yielded, in order
    calls,       \* per connection: dispatch invocations made by the runner
    written,     \* per connection: frames given to this connection's writer
    table,       \* handler_map: validator id -> handler, None when absent
    readers,     \* connections holding a read guard of handler_map
    writer,      \* mutator holding the write guard, or 0
    queue,       \* FIFO of tasks waiting for the RwLock
    mst,         \* per mutator: "idle" | "waiting" | "writing"
    muts         \* per mutator: number of mutations requested so far

vars == << process, listener, acceptErrs, accepted, acceptBusy, st, why, inbox,
           rcvd, calls, written, table, readers, writer, queue, mst, muts >>

listenerVars == << process, listener, acceptErrs, accepted, acceptBusy >>
connVars == << st, why, inbox, rcvd, calls, written >>
lockVars == << readers, writer, queue >>
mutVars == << mst, muts >>

(* --------------------------- envelope --------------------------------- *)
\* bincode::deserialize::<DvfMessage>: fails on a frame shorter than the id
\* prefix, otherwise splits the frame into validator_id and message
CanDecode(frame) == Len(frame) >= IdWidth

DecodeId(frame) == frame[1]

DecodeMessage(frame) == SubSeq(frame, IdWidth + 1, Len(frame))

\* the frame a runner is working on: the last one it read
CurFrame(c) == rcvd[c][Len(rcvd[c])]

(* --------------------------- tokio RwLock ----------------------------- *)
IsWriter(w) == w \in Mutators

Position(w) == CHOOSE i \in 1..Len(queue) : queue[i] = w

Queued(w) == \E i \in 1..Len(queue) : queue[i] = w

Dequeue(w) == [ i \in 1..(Len(queue) - 1) |->
                  IF i < Position(w) THEN queue[i] ELSE queue[i + 1] ]

\* mutant: readers do not respect the writer (the map is read without the
\* lock's exclusion)
CanRead_IgnoresWriter(c) == Queued(c)

\* mutant: the lock admits one holder at a time (a Mutex in place of the
\* RwLock)
CanRead_Exclusive(c) ==
    /\ Queued(c)
    /\ writer = 0
    /\ readers = {}
    /\ \A i \in 1..(Position(c) - 1) : ~IsWriter(queue[i])

\* a waiting reader gets its permit when no writer holds the lock and no
\* writer waits ahead of it
CanRead(c) ==
    /\ Queued(c)
    /\ writer = 0
    /\ \A i \in 1..(Position(c) - 1) : ~IsWriter(queue[i])

\* a writer that is granted the lock only when nobody else waits for it
CanWrite_NeedsEmptyQueue(m) ==
    /\ queue = << m >>
    /\ writer = 0
    /\ readers = {}

\* a waiting writer gets all permits when it is at the head of the queue
\* and nobody holds the lock
CanWrite(m) ==
    /\ queue # << >>
    /\ queue[1] = m
    /\ writer = 0
    /\ readers = {}

(* ----------------------------- Init ----------------------------------- *)
Init ==
    /\ process = "running"
    /\ listener = "binding"
    /\ acceptErrs = 0
    /\ accepted = 0
    /\ acceptBusy = FALSE
    /\ st = [c \in Conns |-> "none"]
    /\ why = [c \in Conns |-> None]
    /\ inbox = [c \in Conns |-> << >>]
    /\ rcvd = [c \in Conns |-> << >>]
    /\ calls = [c \in Conns |-> << >>]
    /\ written = [c \in Conns |-> << >>]
    /\ table = [t \in Tenants |-> IF t = 1 THEN "h1" ELSE None]
    /\ readers = {}
    /\ writer = 0
    /\ queue = << >>
    /\ mst = [m \in Mutators |-> "idle"]
    /\ muts = [m \in Mutators |-> 0]

(* ---------------------------- Listener -------------------------------- *)
\* TcpListener::bind(..).await succeeds
BindOk ==
    /\ process = "running"
    /\ listener = "binding"
    /\ listener' = "accepting"
    /\ UNCHANGED << process, acceptErrs, accepted, acceptBusy >>
    /\ UNCHANGED << connVars, table, lockVars, mutVars >>

\* TcpListener::bind(..).await fails: expect() panics inside the task made
\* by tokio::spawn. With panic=unwind the runtime catches the panic and only
\* the task ends; with panic=abort the process ends.
BindFail ==
    /\ process = "running"
    /\ listener = "binding"
    /\ listener' = "panicked"
    /\ \E abort \in BOOLEAN :
          process' = IF abort THEN "exited" ELSE "running"
    /\ UNCHANGED << acceptErrs, accepted, acceptBusy >>
    /\ UNCHANGED << connVars, table, lockVars, mutVars >>

\* mutant: the accept error ends the loop
AcceptFail_Stops ==
    /\ listener = "accepting"
    /\ acceptErrs < MaxAcceptErrs
    /\ acceptErrs' = acceptErrs + 1
    /\ listener' = "panicked"
    /\ UNCHANGED << process, accepted, acceptBusy >>
    /\ UNCHANGED << connVars, table, lockVars, mutVars >>

\* listener.accept() returns Err: warn!, continue
AcceptFail ==
    /\ listener = "accepting"
    /\ acceptErrs < MaxAcceptErrs
    /\ acceptErrs' = acceptErrs + 1
    /\ UNCHANGED << process, listener, accepted, acceptBusy >>
    /\ UNCHANGED << connVars, table, lockVars, mutVars >>

Busy(c) == st[c] \in {"lookup", "dispatching", "replying"}

\* spawn_runner: tokio::spawn of the runner task for the new socket; the
\* task starts in reader.next()
SpawnRunner(c) ==
    /\ st' = [st EXCEPT ![c] = "open"]
    /\ UNCHANGED << why, inbox, rcvd, calls, written >>

\* mutant: the listener awaits the runner it spawned before it accepts again
AcceptOk_AwaitsRunner ==
    /\ listener = "accepting"
    /\ accepted < MaxConns
    /\ \A c \in Conns : st[c] \in {"none", "closed"}
    /\ accepted' = accepted + 1
    /\ acceptBusy' = (\E c \in Conns : Busy(c))
    /\ SpawnRunner(accepted + 1)
    /\ UNCHANGED << process, listener, acceptErrs >>
    /\ UNCHANGED << table, lockVars, mutVars >>

\* listener.accept() returns Ok: spawn_runner(socket, peer).await, loop
AcceptOk ==
    /\ listener = "accepting"
    /\ accepted < MaxConns
    /\ accepted' = accepted + 1
    /\ acceptBusy' = (\E c \in Conns : Busy(c))
    /\ SpawnRunner(accepted + 1)
    /\ UNCHANGED << process, listener, acceptErrs >>
    /\ UNCHANGED << table, lockVars, mutVars >>

(* ------------------------------ Peer ---------------------------------- *)
\* the peer sends one more frame on its connection
PeerSend(c, f) ==
    /\ st[c] \notin {"none", "closed"}
    /\ Len(rcvd[c]) + Len(inbox[c]) < MaxFrames
    /\ inbox' = [inbox EXCEPT ![c] = Append(@, f)]
    /\ UNCHANGED << st, why, rcvd, calls, written >>
    /\ UNCHANGED << listenerVars, table, lockVars, mutVars >>

(* ------------------------- Connection runner -------------------------- *)
Close(c, reason) ==
    /\ st' = [st EXCEPT ![c] = "closed"]
    /\ why' = [why EXCEPT ![c] = reason]

\* mutant: an undecodable frame is answered with an error reply before the
\* runner returns
NextFrame_RepliesOnBadFrame(c) ==
    /\ st[c] = "open"
    /\ inbox[c] # << >>
    /\ rcvd' = [rcvd EXCEPT ![c] = Append(@, Head(inbox[c]))]
    /\ inbox' = [inbox EXCEPT ![c] = Tail(@)]
    /\ IF CanDecode(Head(inbox[c]))
          THEN /\ st' = [st EXCEPT ![c] = "lookup"]
               /\ queue' = Append(queue, c)
               /\ UNCHANGED << why, written >>
          ELSE /\ Close(c, "decode")
               /\ written' = [written EXCEPT ![c] = Append(@,
                     [idx |-> Len(rcvd[c]) + 1, data |-> "Bad frame", ok |-> TRUE])]
               /\ UNCHANGED queue
    /\ UNCHANGED << calls, readers, writer >>
    /\ UNCHANGED << listenerVars, table, mutVars >>

\* mutant: the next frame is taken while the dispatch of the previous one
\* is still in flight
NextFrame_Pipelined(c) ==
    /\ st[c] \in {"open", "dispatching"}
    /\ inbox[c] # << >>
    /\ rcvd' = [rcvd EXCEPT ![c] = Append(@, Head(inbox[c]))]
    /\ inbox' = [inbox EXCEPT ![c] = Tail(@)]
    /\ IF CanDecode(Head(inbox[c]))
          THEN /\ st' = [st EXCEPT ![c] = "lookup"]
               /\ queue' = Append(queue, c)
               /\ UNCHANGED why
          ELSE /\ Close(c, "decode")
               /\ UNCHANGED queue
    /\ UNCHANGED << calls, written, readers, writer >>
    /\ UNCHANGED << listenerVars, table, mutVars >>

\* reader.next().await yields Some(Ok(message)): deserialize it; on Err
\* warn! and return, on Ok call handler_map.read()
NextFrame(c) ==
    /\ st[c] = "open"
    /\ inbox[c] # << >>
    /\ rcvd' = [rcvd EXCEPT ![c] = Append(@, Head(inbox[c]))]
    /\ inbox' = [inbox EXCEPT ![c] = Tail(@)]
    /\ IF CanDecode(Head(inbox[c]))
          THEN /\ st' = [st EXCEPT ![c] = "lookup"]
               /\ queue' = Append(queue, c)
               /\ UNCHANGED why
          ELSE /\ Close(c, "decode")
               /\ UNCHANGED queue
    /\ UNCHANGED << calls, written, readers, writer >>
    /\ UNCHANGED << listenerVars, table, mutVars >>

\* HashMap::get on the guarded map
Get(id) == IF id \in DOMAIN table THEN table[id] ELSE None

\* mutant: the prefix is not truncated, the handler gets the whole frame
DispatchArg_WholeFrame(c) == CurFrame(c)

\* the argument of handler.dispatch: Bytes::from(dvf_message.message)
DispatchArg(c) == DecodeMessage(CurFrame(c))

\* the result of the runner's previous lookup of the validator id of its
\* current frame, if it made one
EarlierFrames(c) ==
    { i \in 1..(Len(rcvd[c]) - 1) :
        CanDecode(rcvd[c][i]) /\ DecodeId(rcvd[c][i]) = DecodeId(CurFrame(c)) }

EarlierHandler(c) ==
    LET i == CHOOSE i \in EarlierFrames(c) : TRUE
        ks == { k \in 1..Len(calls[c]) : calls[c][k].idx = i }
    IN  IF ks = {} THEN None ELSE calls[c][CHOOSE k \in ks : TRUE].h

\* mutant: the runner keeps what it found per validator id and looks an id
\* up in the table only the first time
Lookup_Cached(c) ==
    /\ st[c] = "lookup"
    /\ CanRead(c)
    /\ queue' = Dequeue(c)
    /\ readers' = readers \cup {c}
    /\ LET h == IF EarlierFrames(c) # {} THEN EarlierHandler(c)
                ELSE Get(DecodeId(CurFrame(c)))
       IN  IF h # None
             THEN /\ st' = [st EXCEPT ![c] = "dispatching"]
                  /\ calls' = [calls EXCEPT ![c] = Append(@,
                        [idx |-> Len(rcvd[c]), h |-> h, msg |-> DispatchArg(c)])]
             ELSE /\ st' = [st EXCEPT ![c] = "replying"]
                  /\ UNCHANGED calls
    /\ UNCHANGED << why, inbox, rcvd, written, writer >>
    /\ UNCHANGED << listenerVars, table, mutVars >>

\* mutant: the handler is cloned out of the map and the read guard dropped
\* before the dispatch
Lookup_DropsGuardEarly(c) ==
    /\ st[c] = "lookup"
    /\ CanRead(c)
    /\ queue' = Dequeue(c)
    /\ UNCHANGED readers
    /\ IF Get(DecodeId(CurFrame(c))) # None
          THEN /\ st' = [st EXCEPT ![c] = "dispatching"]
               /\ calls' = [calls EXCEPT ![c] = Append(@,
                     [idx |-> Len(rcvd[c]),
                      h   |-> Get(DecodeId(CurFrame(c))),
                      msg |-> DispatchArg(c)])]
          ELSE /\ st' = [st EXCEPT ![c] = "replying"]
               /\ UNCHANGED calls
    /\ UNCHANGED << why, inbox, rcvd, written, writer >>
    /\ UNCHANGED << listenerVars, table, mutVars >>

\* mutant: an unknown validator id ends the runner without a reply
Lookup_MissCloses(c) ==
    /\ st[c] = "lookup"
    /\ CanRead(c)
    /\ queue' = Dequeue(c)
    /\ IF Get(DecodeId(CurFrame(c))) # None
          THEN /\ st' = [st EXCEPT ![c] = "dispatching"]
               /\ readers' = readers \cup {c}
               /\ calls' = [calls EXCEPT ![c] = Append(@,
                     [idx |-> Len(rcvd[c]),
                      h   |-> Get(DecodeId(CurFrame(c))),
                      msg |-> DispatchArg(c)])]
               /\ UNCHANGED why
          ELSE /\ Close(c, "nohandler")
               /\ UNCHANGED << calls, readers >>
    /\ UNCHANGED << inbox, rcvd, written, writer >>
    /\ UNCHANGED << listenerVars, table, mutVars >>

\* handler_map.read().await returns the guard; get(&validator_id); on Some
\* call handler.dispatch(&mut writer, msg), on None call writer.send(..)
Lookup(c) ==
    /\ st[c] = "lookup"
    /\ CanRead(c)
    /\ queue' = Dequeue(c)
    /\ readers' = readers \cup {c}
    /\ IF Get(DecodeId(CurFrame(c))) # None
          THEN /\ st' = [st EXCEPT ![c] = "dispatching"]
               /\ calls' = [calls EXCEPT ![c] = Append(@,
                     [idx |-> Len(rcvd[c]),
                      h   |-> Get(DecodeId(CurFrame(c))),
                      msg |-> DispatchArg(c)])]
          ELSE /\ st' = [st EXCEPT ![c] = "replying"]
               /\ UNCHANGED calls
    /\ UNCHANGED << why, inbox, rcvd, written, writer >>
    /\ UNCHANGED << listenerVars, table, mutVars >>

\* what a handler writes to the writer it is given during one dispatch:
\* h1 acknowledges every message, h2 writes nothing
HandlerReplies(h) == IF h = "h1" THEN << Ack >> ELSE << >>

LastCall(c) == calls[c][Len(calls[c])]

\* mutant: the error of a dispatch is logged and the loop goes on
DispatchReturn_IgnoresError(c, ok) ==
    /\ st[c] = "dispatching"
    /\ written' = [written EXCEPT ![c] = @ \o
          [i \in 1..Len(HandlerReplies(LastCall(c).h)) |->
              [idx |-> Len(rcvd[c]), data |-> HandlerReplies(LastCall(c).h)[i],
               ok |-> TRUE]]]
    /\ readers' = readers \ {c}
    /\ st' = [st EXCEPT ![c] = "open"]
    /\ UNCHANGED << why, inbox, rcvd, calls, writer, queue >>
    /\ UNCHANGED << listenerVars, table, mutVars >>

\* mutant: the read guard outlives a runner that returns on a failed dispatch
DispatchReturn_KeepsGuard(c, ok) ==
    /\ st[c] = "dispatching"
    /\ written' = [written EXCEPT ![c] = @ \o
          [i \in 1..Len(HandlerReplies(LastCall(c).h)) |->
              [idx |-> Len(rcvd[c]), data |-> HandlerReplies(LastCall(c).h)[i],
               ok |-> TRUE]]]
    /\ IF ok THEN /\ st' = [st EXCEPT ![c] = "open"]
                  /\ readers' = readers \ {c}
                  /\ UNCHANGED why
             ELSE /\ Close(c, "dispatch")
                  /\ UNCHANGED readers
    /\ UNCHANGED << inbox, rcvd, calls, writer, queue >>
    /\ UNCHANGED << listenerVars, table, mutVars >>

\* handler.dispatch(..).await returns, having written its replies to the
\* writer it was given; Err: error!, return; Ok: next loop iteration.
\* The read guard, a temporary of the match scrutinee, is dropped here.
DispatchReturn(c, ok) ==
    /\ st[c] = "dispatching"
    /\ written' = [written EXCEPT ![c] = @ \o
          [i \in 1..Len(HandlerReplies(LastCall(c).h)) |->
              [idx |-> Len(rcvd[c]), data |-> HandlerReplies(LastCall(c).h)[i],
               ok |-> TRUE]]]
    /\ readers' = readers \ {c}
    /\ IF ok THEN /\ st' = [st EXCEPT ![c] = "open"]
                  /\ UNCHANGED why
             ELSE Close(c, "dispatch")
    /\ UNCHANGED << inbox, rcvd, calls, writer, queue >>
    /\ UNCHANGED << listenerVars, table, mutVars >>

\* mutant: one writer is shared by the runners, the reply goes to the
\* connection accepted first
ReplyDone_SharedWriter(c, ok) ==
    /\ st[c] = "replying"
    /\ written' = [written EXCEPT ![1] =
          Append(@, [idx |-> Len(rcvd[c]), data |-> NoHandlerFound, ok |-> ok])]
    /\ readers' = readers \ {c}
    /\ st' = [st EXCEPT ![c] = "open"]
    /\ UNCHANGED << why, inbox, rcvd, calls, writer, queue >>
    /\ UNCHANGED << listenerVars, table, mutVars >>

\* mutant: a failed send of the reply ends the runner
ReplyDone_FailCloses(c, ok) ==
    /\ st[c] = "replying"
    /\ written' = [written EXCEPT ![c] =
          Append(@, [idx |-> Len(rcvd[c]), data |-> NoHandlerFound, ok |-> ok])]
    /\ readers' = readers \ {c}
    /\ IF ok THEN /\ st' = [st EXCEPT ![c] = "open"]
                  /\ UNCHANGED why
             ELSE Close(c, "transport")
    /\ UNCHANGED << inbox, rcvd, calls, writer, queue >>
    /\ UNCHANGED << listenerVars, table, mutVars >>

\* mutant: the runner returns after the reply, as it does after a failed
\* dispatch
ReplyDone_Closes(c, ok) ==
    /\ st[c] = "replying"
    /\ written' = [written EXCEPT ![c] =
          Append(@, [idx |-> Len(rcvd[c]), data |-> NoHandlerFound, ok |-> ok])]
    /\ readers' = readers \ {c}
    /\ Close(c, "nohandler")
    /\ UNCHANGED << inbox, rcvd, calls, writer, queue >>
    /\ UNCHANGED << listenerVars, table, mutVars >>

\* let _ = writer.send(Bytes::from("No handler found")).await; error!;
\* the read guard is dropped at the end of the match; next loop iteration
ReplyDone(c, ok) ==
    /\ st[c] = "replying"
    /\ written' = [written EXCEPT ![c] =
          Append(@, [idx |-> Len(rcvd[c]), data |-> NoHandlerFound, ok |-> ok])]
    /\ readers' = readers \ {c}
    /\ st' = [st EXCEPT ![c] = "open"]
    /\ UNCHANGED << why, inbox, rcvd, calls, writer, queue >>
    /\ UNCHANGED << listenerVars, table, mutVars >>

\* the peer closes the stream after the frames it sent, and
\* reader.next().await yields None: leave the while loop, warn!
ReadEof(c) ==
    /\ st[c] = "open"
    /\ inbox[c] = << >>
    /\ Close(c, "eof")
    /\ UNCHANGED << inbox, rcvd, calls, written >>
    /\ UNCHANGED << listenerVars, table, lockVars, mutVars >>

\* mutant: a read error is logged and the runner reads again
ReadError_Retries(c) ==
    /\ st[c] = "open"
    /\ why[c] = None
    /\ why' = [why EXCEPT ![c] = "transport"]
    /\ UNCHANGED << st, inbox, rcvd, calls, written >>
    /\ UNCHANGED << listenerVars, table, lockVars, mutVars >>

\* reader.next().await yields Some(Err(e)): warn!, return
ReadError(c) ==
    /\ st[c] = "open"
    /\ Close(c, "transport")
    /\ UNCHANGED << inbox, rcvd, calls, written >>
    /\ UNCHANGED << listenerVars, table, lockVars, mutVars >>

(* --------------------------- Table mutators --------------------------- *)
\* an external task calls handler_map.write()
RequestWrite(m) ==
    /\ process = "running"
    /\ mst[m] = "idle"
    /\ muts[m] < MaxMuts
    /\ mst' = [mst EXCEPT ![m] = "waiting"]
    /\ muts' = [muts EXCEPT ![m] = @ + 1]
    /\ queue' = Append(queue, m)
    /\ UNCHANGED << readers, writer, table >>
    /\ UNCHANGED << listenerVars, connVars >>

\* handler_map.write().await returns the write guard
BeginWrite(m) ==
    /\ process = "running"
    /\ mst[m] = "waiting"
    /\ CanWrite(m)
    /\ queue' = Tail(queue)
    /\ writer' = m
    /\ mst' = [mst EXCEPT ![m] = "writing"]
    /\ UNCHANGED << readers, table, muts >>
    /\ UNCHANGED << listenerVars, connVars >>

\* insert / remove on the map, then the write guard is dropped
EndWrite(m) ==
    /\ process = "running"
    /\ mst[m] = "writing"
    /\ writer = m
    /\ table' = [table EXCEPT ![MutOp(m).t] = MutOp(m).h]
    /\ writer' = 0
    /\ mst' = [mst EXCEPT ![m] = "idle"]
    /\ UNCHANGED << readers, queue, muts >>
    /\ UNCHANGED << listenerVars, connVars >>

(* ------------------------------- Next --------------------------------- *)
Next ==
    \/ BindOk
    \/ BindFail
    \/ AcceptFail
    \/ AcceptOk
    \/ \E c \in Conns, f \in PeerFrames : PeerSend(c, f)
    \/ \E c \in Conns : NextFrame(c)
    \/ \E c \in Conns : Lookup(c)
    \/ \E c \in Conns, ok \in BOOLEAN : DispatchReturn(c, ok)
    \/ \E c \in Conns, ok \in BOOLEAN : ReplyDone(c, ok)
    \/ \E c \in Conns : ReadEof(c)
    \/ \E c \in Conns : ReadError(c)
    \/ \E m \in Mutators : RequestWrite(m)
    \/ \E m \in Mutators : BeginWrite(m)
    \/ \E m \in Mutators : EndWrite(m)

Spec == Init /\ [][Next]_vars

(* --------------------------- fairness --------------------------------- *)
\* The lock grants a read or write guard that it can grant, a dispatch and
\* a reply write return, and a mutator that holds the write guard updates
\* the map and drops it. Nothing is assumed about peers, the listener or
\* new mutation requests.
Fairness ==
    /\ \A c \in Conns : WF_vars(Lookup(c))
    /\ \A c \in Conns : WF_vars(\E ok \in BOOLEAN : DispatchReturn(c, ok))
    /\ \A c \in Conns : WF_vars(\E ok \in BOOLEAN : ReplyDone(c, ok))
    /\ \A m \in Mutators : WF_vars(BeginWrite(m))
    /\ \A m \in Mutators : WF_vars(EndWrite(m))

\* The progress of runners and mutators is checked from the states in
\* which the listener has accepted every connection, each runner waits in
\* reader.next() and the peers have sent what they send; what remains are
\* the steps of the runner tasks and of the mutators.
Inboxes == UNION { [1..n -> PeerFrames] : n \in 0..MaxFrames }

FairInit ==
    /\ process = "running"
    /\ listener = "accepting"
    /\ acceptErrs = 0
    /\ accepted = MaxConns
    /\ acceptBusy = FALSE
    /\ st = [c \in Conns |-> "open"]
    /\ why = [c \in Conns |-> None]
    /\ inbox \in [Conns -> Inboxes]
    /\ rcvd = [c \in Conns |-> << >>]
    /\ calls = [c \in Conns |-> << >>]
    /\ written = [c \in Conns |-> << >>]
    /\ table = [t \in Tenants |-> IF t = 1 THEN "h1" ELSE None]
    /\ readers = {}
    /\ writer = 0
    /\ queue = << >>
    /\ mst = [m \in Mutators |-> "idle"]
    /\ muts = [m \in Mutators |-> 0]

FairNext ==
    \/ \E c \in Conns : NextFrame(c)
    \/ \E c \in Conns : Lookup(c)
    \/ \E c \in Conns, ok \in BOOLEAN : DispatchReturn(c, ok)
    \/ \E c \in Conns, ok \in BOOLEAN : ReplyDone(c, ok)
    \/ \E c \in Conns : ReadEof(c)
    \/ \E c \in Conns : ReadError(c)
    \/ \E m \in Mutators : RequestWrite(m)
    \/ \E m \in Mutators : BeginWrite(m)
    \/ \E m \in Mutators : EndWrite(m)

FairSpec == FairInit /\ [][FairNext]_vars /\ Fairness

(* ======================= properties of the receiver =================== *)
OtherConnsUnchanged(c) ==
    \A d \in Conns \ {c} :
        /\ st'[d] = st[d]
        /\ why'[d] = why[d]
        /\ inbox'[d] = inbox[d]
        /\ rcvd'[d] = rcvd[d]
        /\ calls'[d] = calls[d]
        /\ written'[d] = written[d]

\* the dispatch invocations a runner made for the i-th frame it read
CallsFor(c, i) == { k \in 1..Len(calls[c]) : calls[c][k].idx = i }

\* the "No handler found" replies a runner issued for the i-th frame it read
NoHandlerRepliesFor(c, i) ==
    { k \in 1..Len(written[c]) :
        written[c][k].idx = i /\ written[c][k].data = NoHandlerFound }

\* the runner of c leaves the lookup of its current frame in this step
LookupStep(c) == st[c] = "lookup" /\ st'[c] # "lookup"

(* ---------------------------------------------------------------------- *)
(* C1: a frame whose validator id is in the table at the time of the      *)
(* lookup makes the runner invoke dispatch of the handler stored under    *)
(* that id exactly once, with the frame minus its id prefix as payload,   *)
(* and no "No handler found" reply is written for it.                     *)
(* ---------------------------------------------------------------------- *)
C1_LookupHit(c) ==
    (LookupStep(c) /\ CurFrame(c)[1] \in DOMAIN table /\ table[CurFrame(c)[1]] # None)
    => /\ st'[c] = "dispatching"
       /\ calls'[c] = Append(calls[c],
             [idx |-> Len(rcvd[c]),
              h   |-> table[CurFrame(c)[1]],
              msg |-> SubSeq(CurFrame(c), IdWidth + 1, Len(CurFrame(c)))])
       /\ written'[c] = written[c]

C1_Once ==
    \A c \in Conns : \A k \in 1..Len(calls[c]) :
        /\ Cardinality(CallsFor(c, calls[c][k].idx)) = 1
        /\ NoHandlerRepliesFor(c, calls[c][k].idx) = {}
        /\ calls[c][k].idx \in 1..Len(rcvd[c])
        /\ calls[c][k].msg = SubSeq(rcvd[c][calls[c][k].idx], IdWidth + 1,
                                    Len(rcvd[c][calls[c][k].idx]))

C1_DispatchOnce ==
    /\ []C1_Once
    /\ [][\A c \in Conns : C1_LookupHit(c)]_vars

\* a frame for validator 1 with payload <<7>> was dispatched to h1 and the
\* dispatch returned
C1_Witness ==
    \E c \in Conns :
        /\ st[c] = "open"
        /\ rcvd[c] = << <<1, 7>> >>
        /\ calls[c] = << [idx |-> 1, h |-> "h1", msg |-> <<7>>] >>
        /\ written[c] = << [idx |-> 1, data |-> Ack, ok |-> TRUE] >>

(* ---------------------------------------------------------------------- *)
(* C2: a frame whose validator id is not in the table at the time of the  *)
(* lookup gets exactly one "No handler found" reply written on its own    *)
(* connection, no dispatch, and the connection stays open and goes on     *)
(* with the following frames. (A reply is written when the runner gives   *)
(* it to the connection's writer.)                                        *)
(* ---------------------------------------------------------------------- *)
C2_LookupMiss(c) ==
    (LookupStep(c) /\ ~(CurFrame(c)[1] \in DOMAIN table /\ table[CurFrame(c)[1]] # None))
    => /\ st'[c] = "replying"
       /\ calls'[c] = calls[c]
       /\ written'[c] = written[c]

C2_Reply(c) ==
    (st[c] = "replying" /\ st'[c] # "replying")
    => /\ st'[c] = "open"
       /\ calls'[c] = calls[c]
       /\ Len(written'[c]) = Len(written[c]) + 1
       /\ SubSeq(written'[c], 1, Len(written[c])) = written[c]
       /\ written'[c][Len(written'[c])].data = NoHandlerFound
       /\ written'[c][Len(written'[c])].idx = Len(rcvd[c])
       /\ OtherConnsUnchanged(c)

C2_Once ==
    \A c \in Conns : \A i \in 1..Len(rcvd[c]) :
        /\ Cardinality(NoHandlerRepliesFor(c, i)) <= 1
        /\ NoHandlerRepliesFor(c, i) # {} => CallsFor(c, i) = {}
        /\ (st[c] = "replying" /\ i = Len(rcvd[c])) =>
              (NoHandlerRepliesFor(c, i) = {} /\ CallsFor(c, i) = {})

C2_GoesOn ==
    \A c \in Conns :
        (st[c] = "open" /\ inbox[c] # << >>) => ENABLED NextFrame(c)

C2_NoHandlerReply ==
    /\ [](C2_Once /\ C2_GoesOn)
    /\ [][\A c \in Conns : C2_LookupMiss(c) /\ C2_Reply(c)]_vars

\* a frame for the unregistered validator 2 was answered, and the frame
\* after it on the same connection was then read and dispatched
C2_Witness ==
    \E c \in Conns :
        /\ rcvd[c] = << <<2>>, <<1, 7>> >>
        /\ Len(written[c]) >= 1
        /\ written[c][1].idx = 1
        /\ written[c][1].data = NoHandlerFound
        /\ Len(calls[c]) = 1
        /\ calls[c][1].idx = 2

(* ---------------------------------------------------------------------- *)
(* C3: on one connection frames are processed one at a time and in the    *)
(* order the peer sent them: the next frame is read only when the runner  *)
(* is back in reader.next() (the previous frame's dispatch returned or    *)
(* its reply was written), lookups, dispatches and replies concern the    *)
(* frame read last, and the dispatches follow the order of the frames,    *)
(* whatever the other connections do.                                     *)
(* ---------------------------------------------------------------------- *)
IsPrefix(s, t) == Len(s) <= Len(t) /\ SubSeq(t, 1, Len(s)) = s

\* the i-th frame read on c was dispatched or answered
Resolved(c, i) == CallsFor(c, i) # {} \/ NoHandlerRepliesFor(c, i) # {}

C3_ReadStep(c) ==
    /\ IsPrefix(rcvd[c] \o inbox[c], rcvd'[c] \o inbox'[c])
    /\ rcvd'[c] # rcvd[c] =>
          /\ st[c] = "open"
          /\ inbox[c] # << >>
          /\ rcvd'[c] = Append(rcvd[c], Head(inbox[c]))
          /\ inbox'[c] = Tail(inbox[c])

C3_WorkStep(c) ==
    /\ calls'[c] # calls[c] =>
          /\ st[c] = "lookup"
          /\ Len(calls'[c]) = Len(calls[c]) + 1
          /\ IsPrefix(calls[c], calls'[c])
          /\ calls'[c][Len(calls'[c])].idx = Len(rcvd[c])
    /\ written'[c] # written[c] =>
          /\ st[c] \in {"dispatching", "replying"}
          /\ IsPrefix(written[c], written'[c])
          /\ \A k \in (Len(written[c]) + 1)..Len(written'[c]) :
                written'[c][k].idx = Len(rcvd[c])

C3_Ordered ==
    \A c \in Conns :
        /\ \A k \in 1..Len(calls[c]) : \A l \in 1..Len(calls[c]) :
              k < l => calls[c][k].idx < calls[c][l].idx
        /\ \A k \in 1..Len(calls[c]) :
              /\ calls[c][k].idx \in 1..Len(rcvd[c])
              /\ calls[c][k].msg = DecodeMessage(rcvd[c][calls[c][k].idx])
        /\ \A i \in 1..(Len(rcvd[c]) - 1) : Resolved(c, i)
        /\ (st[c] = "open" /\ rcvd[c] # << >>) => Resolved(c, Len(rcvd[c]))
        /\ (st[c] = "lookup" /\ rcvd[c] # << >>) => ~Resolved(c, Len(rcvd[c]))

C3_Sequential ==
    /\ []C3_Ordered
    /\ [][\A c \in Conns : C3_ReadStep(c) /\ C3_WorkStep(c)]_vars

\* two frames of one connection were dispatched in the order sent while
\* the other connection was inside a lookup, dispatch or reply
C3_Witness ==
    \E c \in Conns : \E d \in Conns \ {c} :
        /\ rcvd[c] = << <<2>>, <<1, 7>> >>
        /\ Len(calls[c]) = 2
        /\ calls[c][1] = [idx |-> 1, h |-> "h2", msg |-> << >>]
        /\ calls[c][2] = [idx |-> 2, h |-> "h1", msg |-> <<7>>]
        /\ Busy(d)

(* ---------------------------------------------------------------------- *)
(* C4: when a connection is closed by an undecodable frame, a transport   *)
(* read error or a failed dispatch, nothing else changes: the other       *)
(* connections keep their state, the closed runner holds no read guard    *)
(* and waits for none, the other runners can go on, and the listener      *)
(* keeps accepting.                                                       *)
(* ---------------------------------------------------------------------- *)
WriterAhead(c) ==
    \/ writer # 0
    \/ \E i \in 1..Len(queue) : \E j \in 1..Len(queue) :
          i < j /\ IsWriter(queue[i]) /\ queue[j] = c

C4_CloseStep(c) ==
    (st[c] # "closed" /\ st'[c] = "closed")
    => /\ OtherConnsUnchanged(c)
       /\ listener' = listener
       /\ process' = process
       /\ accepted' = accepted
       /\ table' = table
       /\ readers' = readers \ {c}
       /\ writer' = writer
       /\ queue' = queue

C4_Isolated ==
    /\ \A c \in Conns :
          st[c] = "closed" => (c \notin readers /\ ~Queued(c))
    /\ \A d \in Conns :
          /\ (st[d] = "open" /\ inbox[d] # << >>) => ENABLED NextFrame(d)
          /\ st[d] = "lookup" => (ENABLED Lookup(d) \/ WriterAhead(d))
          /\ st[d] = "dispatching" => ENABLED DispatchReturn(d, TRUE)
          /\ st[d] = "replying" => ENABLED ReplyDone(d, TRUE)
    /\ (listener = "accepting" /\ accepted < MaxConns) => ENABLED AcceptOk

C4_FailureIsLocal ==
    /\ []C4_Isolated
    /\ [][\A c \in Conns : C4_CloseStep(c)]_vars

\* one connection was closed by a failed dispatch, another one has a frame
\* whose lookup can proceed, and the listener is accepting
C4_Witness ==
    \E c \in Conns : \E d \in Conns \ {c} :
        /\ st[c] = "closed"
        /\ why[c] = "dispatch"
        /\ st[d] = "lookup"
        /\ ENABLED Lookup(d)
        /\ listener = "accepting"

(* ---------------------------------------------------------------------- *)
(* C5: the table is read and mutated under mutual exclusion: while a      *)
(* mutation holds the map no runner holds or gets a read guard and no     *)
(* other mutation holds it, the table changes only by one whole mutation  *)
(* at a time, and what a lookup returned is what the table holds for as   *)
(* long as the runner keeps its guard.                                    *)
(* ---------------------------------------------------------------------- *)
C5_Exclusive ==
    /\ writer # 0 => readers = {}
    /\ \A m \in Mutators : mst[m] = "writing" <=> writer = m
    /\ \A c \in Conns :
          /\ st[c] \in {"dispatching", "replying"} <=> c \in readers
          /\ st[c] = "dispatching" =>
                LastCall(c).h = table[DecodeId(CurFrame(c))]
          /\ st[c] = "replying" => table[DecodeId(CurFrame(c))] = None

C5_MutationStep ==
    table' # table
    => /\ writer \in Mutators
       /\ writer' = 0
       /\ readers = {}
       /\ table' = [table EXCEPT ![MutOp(writer).t] = MutOp(writer).h]

C5_LookupStep(c) == LookupStep(c) => (writer = 0 /\ table' = table)

C5_Linearizable ==
    /\ []C5_Exclusive
    /\ [][C5_MutationStep /\ \A c \in Conns : C5_LookupStep(c)]_vars

\* one mutation holds the map, the other waits for it, and a runner's
\* lookup waits as well
C5_Witness ==
    /\ mst[-1] = "writing"
    /\ mst[-2] = "waiting"
    /\ \E c \in Conns : st[c] = "lookup"

(* ---------------------------------------------------------------------- *)
(* C6: two connections with frames for the same registered validator id   *)
(* get the same handler, their dispatches can be in flight together (a    *)
(* lookup waits only for a writer, never for another reader), and each    *)
(* dispatch can return.                                                   *)
(* ---------------------------------------------------------------------- *)
C6_SameHandler ==
    \A c \in Conns : \A d \in Conns :
        (/\ st[c] = "dispatching"
         /\ st[d] = "dispatching"
         /\ DecodeId(CurFrame(c)) = DecodeId(CurFrame(d)))
        => LastCall(c).h = LastCall(d).h

C6_ConcurrentDispatch ==
    /\ C6_SameHandler
    /\ \A c \in Conns :
          /\ (st[c] = "lookup" /\ ~WriterAhead(c)) => ENABLED Lookup(c)
          /\ st[c] = "dispatching" =>
                (ENABLED DispatchReturn(c, TRUE) /\ ENABLED DispatchReturn(c, FALSE))

\* both connections are inside a dispatch of the same handler for the same
\* validator id
C6_Witness ==
    /\ \A c \in Conns : st[c] = "dispatching" /\ CurFrame(c) = <<1, 7>>
    /\ \A c \in Conns : LastCall(c).h = "h1"

(* ---------------------------------------------------------------------- *)
(* C7: while a mutation of the table is requested or applied and other    *)
(* connections are inside a dispatch, no runner is blocked by the         *)
(* mutation: a runner that has a frame to look up can always proceed      *)
(* with its lookup.                                                       *)
(* ---------------------------------------------------------------------- *)
C7_NeverBlocked ==
    \A c \in Conns :
        (/\ st[c] = "lookup"
         /\ \E m \in Mutators : mst[m] # "idle"
         /\ \E d \in Conns \ {c} : st[d] = "dispatching")
        => ENABLED Lookup(c)

\* a runner's lookup waits behind a mutation that itself waits for the
\* dispatch of another connection to return
C7_BlockedBehindDispatch ==
    \E c \in Conns : \E d \in Conns \ {c} : \E m \in Mutators :
        /\ st[d] = "dispatching"
        /\ mst[m] = "waiting"
        /\ st[c] = "lookup"
        /\ ~ENABLED Lookup(c)
        /\ ~ENABLED BeginWrite(m)

(* ---------------------------------------------------------------------- *)
(* C8: a failed bind is fatal for the process: there is no state where    *)
(* the listener has died on the bind and the process still runs.          *)
(* ---------------------------------------------------------------------- *)
C8_BindFailureFatal == listener = "panicked" => process = "exited"

\* the listener died on the bind, the process runs on and the table is
\* still being mutated for a receiver that will never accept
C8_ListenerDeadProcessRuns ==
    /\ listener = "panicked"
    /\ process = "running"
    /\ accepted = 0
    /\ \E m \in Mutators : mst[m] = "writing"

(* ---------------------------------------------------------------------- *)
(* C9: an accept failure is recorded and changes nothing else: no runner  *)
(* is created, the connections are unchanged, the listener stays in its   *)
(* loop, and after any number of failures it can accept, which spawns a   *)
(* runner.                                                                *)
(* ---------------------------------------------------------------------- *)
C9_FailStep ==
    acceptErrs' # acceptErrs
    => /\ acceptErrs' = acceptErrs + 1
       /\ listener = "accepting"
       /\ accepted' = accepted
       /\ process' = process
       /\ UNCHANGED connVars

C9_LoopGoesOn ==
    listener = "accepting"
    => /\ listener' = "accepting"
       /\ accepted' # accepted => st'[accepted + 1] = "open"

C9_CanAccept ==
    (listener = "accepting" /\ accepted < MaxConns) => ENABLED AcceptOk

C9_AcceptFailureTransient ==
    /\ []C9_CanAccept
    /\ [][C9_FailStep /\ C9_LoopGoesOn]_vars

\* after an accept failure no connection exists and the listener can accept
C9_Witness ==
    /\ acceptErrs >= 1
    /\ accepted = 0
    /\ \A c \in Conns : st[c] = "none"
    /\ listener = "accepting"
    /\ ENABLED AcceptOk

(* ---------------------------------------------------------------------- *)
(* C10: a successful accept spawns exactly one runner, for the new        *)
(* connection, and the listener is back in accept at once: it can accept  *)
(* again whatever the earlier runners are doing.                          *)
(* ---------------------------------------------------------------------- *)
Runners == { c \in Conns : st[c] # "none" }

C10_AcceptStep ==
    accepted' # accepted
    => /\ accepted' = accepted + 1
       /\ listener' = "accepting"
       /\ Cardinality(Runners') = Cardinality(Runners) + 1
       /\ \E c \in Conns :
             /\ st[c] = "none"
             /\ st'[c] = "open"
             /\ OtherConnsUnchanged(c)
       /\ UNCHANGED << table, lockVars >>

C10_OneRunnerEach ==
    /\ Cardinality(Runners) = accepted
    /\ (listener = "accepting" /\ \E c \in Conns : st[c] = "none")
          => ENABLED AcceptOk

C10_SpawnAndContinue ==
    /\ []C10_OneRunnerEach
    /\ [][C10_AcceptStep]_vars

\* the second connection was accepted while the runner of the first was
\* inside a lookup, dispatch or reply
C10_Witness ==
    /\ accepted = 2
    /\ acceptBusy
    /\ st[2] # "none"

(* ---------------------------------------------------------------------- *)
(* C11: a dispatch that returns an error closes its connection at once:   *)
(* the dispatch is not repeated, the runner writes no reply, and no       *)
(* further frame of the connection is read, decoded or dispatched, also   *)
(* when frames are waiting.                                               *)
(* ---------------------------------------------------------------------- *)
\* the entries a step appends to what was written on c
NewWrites(c) == { k \in 1..Len(written'[c]) : k > Len(written[c]) }

C11_FailedReturn(c) ==
    DispatchReturn(c, FALSE)
    => /\ st'[c] = "closed"
       /\ why'[c] = "dispatch"
       /\ calls'[c] = calls[c]
       /\ rcvd'[c] = rcvd[c]
       /\ inbox'[c] = inbox[c]
       /\ \A k \in NewWrites(c) : written'[c][k].data # NoHandlerFound
       /\ c \notin readers'

C11_Final(c) ==
    (st[c] = "closed" /\ why[c] = "dispatch")
    => /\ st'[c] = "closed"
       /\ calls'[c] = calls[c]
       /\ rcvd'[c] = rcvd[c]
       /\ inbox'[c] = inbox[c]
       /\ written'[c] = written[c]

C11_NotRetried ==
    \A c \in Conns :
        why[c] = "dispatch"
        => /\ st[c] = "closed"
           /\ Cardinality(CallsFor(c, Len(rcvd[c]))) = 1
           /\ LastCall(c).idx = Len(rcvd[c])
           /\ NoHandlerRepliesFor(c, Len(rcvd[c])) = {}
           /\ ~ENABLED NextFrame(c)

C11_DispatchFailureCloses ==
    /\ []C11_NotRetried
    /\ [][\A c \in Conns : C11_FailedReturn(c) /\ C11_Final(c)]_vars

\* a connection was closed by a failed dispatch of its first frame while
\* its second frame was waiting
C11_Witness ==
    \E c \in Conns :
        /\ st[c] = "closed"
        /\ why[c] = "dispatch"
        /\ Len(rcvd[c]) = 1
        /\ Len(calls[c]) = 1
        /\ inbox[c] # << >>

(* ---------------------------------------------------------------------- *)
(* C12: a frame that cannot be decoded closes its connection: no reply    *)
(* is written, the table is not looked up and no handler is dispatched    *)
(* for that frame.                                                        *)
(* ---------------------------------------------------------------------- *)
C12_BadFrameStep(c) ==
    (rcvd'[c] # rcvd[c] /\ ~CanDecode(Head(inbox[c])))
    => /\ st'[c] = "closed"
       /\ why'[c] = "decode"
       /\ written'[c] = written[c]
       /\ calls'[c] = calls[c]
       /\ UNCHANGED lockVars

C12_BadFrame ==
    \A c \in Conns : \A i \in 1..Len(rcvd[c]) :
        ~CanDecode(rcvd[c][i])
        => /\ i = Len(rcvd[c])
           /\ st[c] = "closed"
           /\ why[c] = "decode"
           /\ CallsFor(c, i) = {}
           /\ \A k \in 1..Len(written[c]) : written[c][k].idx # i
           /\ c \notin readers
           /\ ~Queued(c)

C12_DecodeFailureCloses ==
    /\ []C12_BadFrame
    /\ [][\A c \in Conns : C12_BadFrameStep(c)]_vars

\* a connection was closed by an undecodable second frame, after its first
\* frame had been dispatched
C12_Witness ==
    \E c \in Conns :
        /\ st[c] = "closed"
        /\ why[c] = "decode"
        /\ rcvd[c] = << <<1, 7>>, << >> >>
        /\ Len(calls[c]) = 1
        /\ Len(written[c]) = 1

(* ---------------------------------------------------------------------- *)
(* C13: the runners are independent: whether a frame of one connection    *)
(* is looked up and dispatched never depends on the runner of another     *)
(* connection; a dispatch still in flight on one connection cannot keep   *)
(* the lookup of another connection from proceeding.                      *)
(* ---------------------------------------------------------------------- *)
C13_Independent ==
    \A c \in Conns : \A d \in Conns \ {c} :
        (st[c] = "lookup" /\ st[d] = "dispatching") => ENABLED Lookup(c)

\* the lookup of a frame for the registered validator 1 waits behind the
\* insertion of validator 2, and the only step that can let either proceed
\* is the return of the other connection's dispatch
C13_WaitsForOtherDispatch ==
    \E c \in Conns : \E d \in Conns \ {c} :
        /\ st[d] = "dispatching"
        /\ st[c] = "lookup"
        /\ DecodeId(CurFrame(c)) = 1
        /\ queue = << -1, c >>
        /\ readers = {d}
        /\ ~ENABLED Lookup(c)
        /\ \A m \in Mutators : ~ENABLED BeginWrite(m) /\ ~ENABLED EndWrite(m)

(* ---------------------------------------------------------------------- *)
(* C14: a connection moves open -> lookup -> (dispatching | replying) ->  *)
(* open, or to closed from open (undecodable frame, read error, end of    *)
(* stream) and from dispatching (failed dispatch); closed is the only     *)
(* state without a way out and nothing happens on a closed connection.    *)
(* ---------------------------------------------------------------------- *)
Transitions ==
    { <<"none", "open">>,
      <<"open", "lookup">>, <<"open", "closed">>,
      <<"lookup", "dispatching">>, <<"lookup", "replying">>,
      <<"dispatching", "open">>, <<"dispatching", "closed">>,
      <<"replying", "open">> }

C14_Step(c) ==
    /\ st'[c] # st[c] => << st[c], st'[c] >> \in Transitions
    /\ st[c] = "closed" =>
          /\ st'[c] = "closed"
          /\ why'[c] = why[c]
          /\ rcvd'[c] = rcvd[c]
          /\ calls'[c] = calls[c]
          /\ written'[c] = written[c]
          /\ inbox'[c] = inbox[c]

C14_States ==
    \A c \in Conns :
        /\ st[c] \in {"none", "open", "lookup", "dispatching", "replying", "closed"}
        /\ st[c] = "closed" <=> why[c] # None
        /\ st[c] = "closed" =>
              /\ c \notin readers
              /\ ~Queued(c)
              /\ ~ENABLED NextFrame(c)
              /\ ~ENABLED Lookup(c)
              /\ ~ENABLED ReadEof(c)
              /\ ~ENABLED ReadError(c)
              /\ \A ok \in BOOLEAN :
                    ~ENABLED DispatchReturn(c, ok) /\ ~ENABLED ReplyDone(c, ok)
        /\ st[c] = "open" => ENABLED ReadError(c)
        /\ st[c] = "lookup" => Queued(c)
        /\ st[c] = "dispatching" => ENABLED DispatchReturn(c, TRUE)
        /\ st[c] = "replying" => ENABLED ReplyDone(c, TRUE)

C14_StateMachine ==
    /\ []C14_States
    /\ [][\A c \in Conns : C14_Step(c)]_vars

\* a connection had one frame answered, one frame dispatched and was then
\* closed by a read error
C14_Witness ==
    \E c \in Conns :
        /\ st[c] = "closed"
        /\ why[c] = "transport"
        /\ Len(rcvd[c]) = 2
        /\ Len(calls[c]) = 1
        /\ \E i \in 1..2 : NoHandlerRepliesFor(c, i) # {}

(* ---------------------------------------------------------------------- *)
(* C15: a connection is closed only by end of stream, a read error, an    *)
(* undecodable frame or a failed dispatch of its own; nothing else closes *)
(* it: not the passing of time on an idle connection, not an unknown      *)
(* validator id, not a mutation of the table.                             *)
(* ---------------------------------------------------------------------- *)
C15_CloseStep(c) ==
    (st[c] # "closed" /\ st'[c] = "closed")
    => \/ /\ st[c] = "open"
          /\ rcvd'[c] # rcvd[c]
          /\ ~CanDecode(Head(inbox[c]))
          /\ why'[c] = "decode"
       \/ /\ st[c] = "open"
          /\ rcvd'[c] = rcvd[c]
          /\ inbox[c] = << >>
          /\ why'[c] = "eof"
       \/ /\ st[c] = "open"
          /\ rcvd'[c] = rcvd[c]
          /\ why'[c] = "transport"
       \/ /\ st[c] = "dispatching"
          /\ why'[c] = "dispatch"

C15_OthersDoNotClose ==
    /\ (table' # table \/ mst' # mst \/ listener' # listener
          \/ accepted' # accepted \/ acceptErrs' # acceptErrs)
       => \A c \in Conns : st'[c] = "closed" => st[c] = "closed"
    /\ \A c \in Conns :
          st[c] \in {"lookup", "replying"} => st'[c] # "closed"

C15_Reasons ==
    \A c \in Conns :
        st[c] = "closed"
        => /\ why[c] \in {"eof", "transport", "decode", "dispatch"}
           /\ why[c] = "decode" => ~CanDecode(CurFrame(c))
           /\ why[c] = "dispatch" => CallsFor(c, Len(rcvd[c])) # {}
           /\ rcvd[c] = << >> => why[c] \in {"eof", "transport"}

C15_OnlyOwnFailureCloses ==
    /\ []C15_Reasons
    /\ [][C15_OthersDoNotClose /\ \A c \in Conns : C15_CloseStep(c)]_vars

\* a connection that never sent a frame is still open after the other
\* connection was closed, an unknown validator id was answered and both
\* mutations of the table were done
C15_Witness ==
    \E c \in Conns : \E d \in Conns \ {c} :
        /\ st[c] = "open"
        /\ rcvd[c] = << >>
        /\ inbox[c] = << >>
        /\ st[d] = "closed"
        /\ \E i \in 1..Len(rcvd[d]) : NoHandlerRepliesFor(d, i) # {}
        /\ \A m \in Mutators : muts[m] = MaxMuts /\ mst[m] = "idle"

(* ---------------------------------------------------------------------- *)
(* C16: what is written while a frame is handled goes to the connection   *)
(* the frame came from: the replies of a dispatch and the "No handler     *)
(* found" reply are appended to the writer of the runner's own            *)
(* connection and a step never changes what was written to another one,   *)
(* also when both connections use the same handler.                       *)
(* ---------------------------------------------------------------------- *)
C16_WriteStep(c) ==
    written'[c] # written[c]
    => /\ st[c] \in {"dispatching", "replying"}
       /\ st'[c] \in {"open", "closed"}
       /\ IsPrefix(written[c], written'[c])
       /\ \A d \in Conns \ {c} : written'[d] = written[d] /\ st'[d] = st[d]
       /\ \A k \in NewWrites(c) :
             /\ written'[c][k].idx = Len(rcvd[c])
             /\ st[c] = "replying" <=> written'[c][k].data = NoHandlerFound

C16_OwnFrames ==
    \A c \in Conns : \A k \in 1..Len(written[c]) :
        /\ written[c][k].idx \in 1..Len(rcvd[c])
        /\ written[c][k].data = NoHandlerFound
              => CallsFor(c, written[c][k].idx) = {}
        /\ written[c][k].data # NoHandlerFound
              => \E j \in CallsFor(c, written[c][k].idx) :
                    << written[c][k].data >> = HandlerReplies(calls[c][j].h)

C16_Count ==
    \A c \in Conns :
        Len(written[c]) =
            Cardinality({ i \in 1..Len(rcvd[c]) : NoHandlerRepliesFor(c, i) # {} })
          + Cardinality({ j \in 1..Len(calls[c]) :
                            /\ HandlerReplies(calls[c][j].h) # << >>
                            /\ ~(st[c] = "dispatching" /\ j = Len(calls[c])) })

C16_RepliesScoped ==
    /\ [](C16_OwnFrames /\ C16_Count)
    /\ [][\A c \in Conns : C16_WriteStep(c)]_vars

\* both connections dispatched to the same handler h1; the second one had
\* an unknown validator id answered as well, the first one did not
C16_Witness ==
    /\ Len(calls[1]) = 2
    /\ \A j \in 1..2 : calls[1][j].h = "h1"
    /\ Len(written[1]) = 2
    /\ \A k \in 1..2 : written[1][k].data = Ack
    /\ Len(calls[2]) = 1
    /\ calls[2][1].h = "h1"
    /\ Len(written[2]) = 2
    /\ \E k \in 1..2 : written[2][k].data = NoHandlerFound

(* ---------------------------------------------------------------------- *)
(* C17: a runner holds a read guard of the table exactly from its lookup  *)
(* until the dispatch returned or the reply was sent, not while it waits  *)
(* for a frame or for the lock and not once closed. Hence no mutation     *)
(* takes effect while a dispatch is in flight, and after a removal no     *)
(* dispatch to the removed handler is still running.                      *)
(* ---------------------------------------------------------------------- *)
C17_Held ==
    /\ \A c \in Conns : c \in readers <=> st[c] \in {"dispatching", "replying"}
    /\ \A c \in Conns :
          st[c] = "dispatching" => table[DecodeId(CurFrame(c))] # None

C17_GuardStep(c) ==
    /\ (c \notin readers /\ c \in readers') <=> LookupStep(c)
    /\ (c \in readers /\ c \notin readers') <=>
          (st[c] \in {"dispatching", "replying"} /\ st'[c] \in {"open", "closed"})

C17_MutationWaits ==
    table' # table
    => /\ \A c \in Conns : st[c] \notin {"dispatching", "replying"}
       /\ \A c \in Conns : st'[c] \notin {"dispatching", "replying"}

C17_GuardAcrossDispatch ==
    /\ []C17_Held
    /\ [][C17_MutationWaits /\ \A c \in Conns : C17_GuardStep(c)]_vars

\* the removal of validator 1 waits at the head of the lock's queue for a
\* dispatch to the handler of validator 1 to return
C17_Witness ==
    \E c \in Conns :
        /\ st[c] = "dispatching"
        /\ DecodeId(CurFrame(c)) = 1
        /\ mst[-2] = "waiting"
        /\ queue # << >>
        /\ queue[1] = -2
        /\ ~ENABLED BeginWrite(-2)
        /\ table[1] = "h1"

(* ---------------------------------------------------------------------- *)
(* C18: the table is consulted for every frame: once a mutation of a      *)
(* validator id is done, a lookup of that id gives what the mutation      *)
(* left, the inserted handler or "No handler found" after a removal,      *)
(* whatever the same connection got for that id before.                   *)
(* ---------------------------------------------------------------------- *)
\* mutations of m that were applied to the table
Completed(m) == IF mst[m] = "idle" THEN muts[m] ELSE muts[m] - 1

C18_FreshLookup(c) ==
    LookupStep(c)
    => \A m \in Mutators :
          (MutOp(m).t = CurFrame(c)[1] /\ Completed(m) >= 1)
          => IF MutOp(m).h = None
               THEN st'[c] = "replying" /\ calls'[c] = calls[c]
               ELSE /\ st'[c] = "dispatching"
                    /\ Len(calls'[c]) = Len(calls[c]) + 1
                    /\ calls'[c][Len(calls'[c])].h = MutOp(m).h

C18_NoCaching == [][\A c \in Conns : C18_FreshLookup(c)]_vars

\* one connection got "No handler found" for validator 2 and then, after
\* the insertion, a dispatch to h2; the other got a dispatch to h1 for
\* validator 1 and then, after the removal, "No handler found"
C18_Witness ==
    \E c \in Conns : \E d \in Conns \ {c} :
        /\ rcvd[c] = << <<2>>, <<2>> >>
        /\ NoHandlerRepliesFor(c, 1) # {}
        /\ calls[c] = << [idx |-> 2, h |-> "h2", msg |-> << >>] >>
        /\ rcvd[d] = << <<1, 7>>, <<1, 7>> >>
        /\ calls[d] = << [idx |-> 1, h |-> "h1", msg |-> <<7>>] >>
        /\ NoHandlerRepliesFor(d, 2) # {}

(* ---------------------------------------------------------------------- *)
(* C19: the result of sending "No handler found" is ignored: when the     *)
(* send fails the connection is not closed and the runner reads the next  *)
(* frame.                                                                 *)
(* ---------------------------------------------------------------------- *)
C19_FailedSend(c) ==
    ReplyDone(c, FALSE)
    => /\ st'[c] = "open"
       /\ why'[c] = None
       /\ c \notin readers'

C19_AfterFailedSend ==
    \A c \in Conns : \A k \in 1..Len(written[c]) :
        (written[c][k].data = NoHandlerFound /\ ~written[c][k].ok)
        => /\ why[c] \in {None, "eof", "transport", "decode", "dispatch"}
           /\ (written[c][k].idx = Len(rcvd[c]) /\ st[c] = "closed")
                 => why[c] \in {"eof", "transport"}
           /\ (st[c] = "open" /\ inbox[c] # << >>) => ENABLED NextFrame(c)

C19_ReplyResultIgnored ==
    /\ []C19_AfterFailedSend
    /\ [][\A c \in Conns : C19_FailedSend(c)]_vars

\* the send of "No handler found" for the first frame failed and the
\* second frame was then read and dispatched
C19_Witness ==
    \E c \in Conns :
        /\ Len(rcvd[c]) = 2
        /\ Len(written[c]) >= 1
        /\ written[c][1] = [idx |-> 1, data |-> NoHandlerFound, ok |-> FALSE]
        /\ Len(calls[c]) = 1
        /\ calls[c][1].idx = 2

(* ---------------------------------------------------------------------- *)
(* C20: progress. When every dispatch and every reply write returns and   *)
(* the lock grants its guards in order, runners and mutators do not       *)
(* deadlock: every requested mutation is eventually applied and every     *)
(* frame a runner has read is eventually dispatched, answered with "No    *)
(* handler found" or its connection closed, and the runner is then        *)
(* back reading or closed.                                                *)
(* ---------------------------------------------------------------------- *)
C20_Progress ==
    /\ \A m \in Mutators :
          (mst[m] # "idle") ~> (mst[m] = "idle" \/ process = "exited")
    /\ \A c \in Conns :
          (st[c] = "lookup")
             ~> (st[c] \in {"dispatching", "replying", "closed"}
                   \/ process = "exited")
    /\ \A c \in Conns :
          Busy(c) ~> (st[c] \in {"open", "closed"} \/ process = "exited")

\* a dispatch is in flight, the removal waits for it at the head of the
\* queue and the other runner waits behind the removal, after the
\* insertion was already applied
C20_Witness ==
    \E c \in Conns : \E d \in Conns \ {c} :
        /\ process = "running"
        /\ st[c] = "dispatching"
        /\ st[d] = "lookup"
        /\ queue = << -2, d >>
        /\ mst[-2] = "waiting"
        /\ mst[-1] = "idle"
        /\ muts[-1] = 1
        /\ table[2] = "h2"

====
